---- MODULE Spec2Model ----
(***************************************************************************)
(* A model of the ortalab round scorer: the hand classifier                *)
(* (poker/hands.rs, poker/helpers.rs), the modifier engine                 *)
(* (poker/modifiers.rs), the joker engine (poker/jokers.rs) and the        *)
(* scoring pipeline (poker/scoring.rs).                                    *)
(*                                                                         *)
(* A card is a record [rank, suit, enhancement, edition]; "None" stands    *)
(* for Option::None.  Chips are integers.  Mult is an exact dyadic         *)
(* rational [n, d] kept in lowest terms: the only non-integer operation of *)
(* the program is the multiplication by 1.5, which f64 performs exactly on *)
(* the values that occur here.                                             *)
(*                                                                         *)
(* Iteration over a HashMap or HashSet has no fixed order: every operator  *)
(* that reads such an order yields the set of all outcomes.                *)
(***************************************************************************)
EXTENDS Integers, Sequences, FiniteSets, TLC

Ranks == {"Two", "Three", "Four", "Five", "Six", "Seven", "Eight", "Nine",
          "Ten", "Jack", "Queen", "King", "Ace"}

Suits == {"Hearts", "Diamonds", "Spades", "Clubs"}

\* hands.rs compute_card_order: the rank's position, Two = 2 .. Ace = 14.
compute_card_order(card) ==
    CASE card.rank = "Two"   -> 2
      [] card.rank = "Three" -> 3
      [] card.rank = "Four"  -> 4
      [] card.rank = "Five"  -> 5
      [] card.rank = "Six"   -> 6
      [] card.rank = "Seven" -> 7
      [] card.rank = "Eight" -> 8
      [] card.rank = "Nine"  -> 9
      [] card.rank = "Ten"   -> 10
      [] card.rank = "Jack"  -> 11
      [] card.rank = "Queen" -> 12
      [] card.rank = "King"  -> 13
      [] card.rank = "Ace"   -> 14

\* ortalib Rank::rank_value, the chip value of a rank.  The library is not
\* part of the repository; the values are the specification's rank table.
rank_value(rank) ==
    CASE rank = "Two"   -> 2
      [] rank = "Three" -> 3
      [] rank = "Four"  -> 4
      [] rank = "Five"  -> 5
      [] rank = "Six"   -> 6
      [] rank = "Seven" -> 7
      [] rank = "Eight" -> 8
      [] rank = "Nine"  -> 9
      [] rank = "Ten"   -> 10
      [] rank = "Jack"  -> 11
      [] rank = "Queen" -> 12
      [] rank = "King"  -> 13
      [] rank = "Ace"   -> 14

\* ortalib Rank::is_face.
is_face(rank) == rank \in {"Jack", "Queen", "King"}

\* ortalib Suit::color.
color(suit) == IF suit \in {"Hearts", "Diamonds"} THEN "Red" ELSE "Black"

\* The table with TwoPair given the value of Pair.
hand_value_TwoPairAsPair(h) ==
    CASE h = "HighCard"      -> [chips |-> 5,   mult |-> 1]
      [] h = "Pair"          -> [chips |-> 10,  mult |-> 2]
      [] h = "TwoPair"       -> [chips |-> 10,  mult |-> 2]
      [] h = "ThreeOfAKind"  -> [chips |-> 30,  mult |-> 3]
      [] h = "Straight"      -> [chips |-> 30,  mult |-> 4]
      [] h = "Flush"         -> [chips |-> 35,  mult |-> 4]
      [] h = "FullHouse"     -> [chips |-> 40,  mult |-> 4]
      [] h = "FourOfAKind"   -> [chips |-> 60,  mult |-> 4]
      [] h = "StraightFlush" -> [chips |-> 100, mult |-> 8]
      [] h = "FiveOfAKind"   -> [chips |-> 120, mult |-> 12]
      [] h = "FlushHouse"    -> [chips |-> 140, mult |-> 14]
      [] h = "FlushFive"     -> [chips |-> 160, mult |-> 16]

\* ortalib PokerHand::hand_value, with the values the detectors document.
hand_value(h) ==
    CASE h = "HighCard"      -> [chips |-> 5,   mult |-> 1]
      [] h = "Pair"          -> [chips |-> 10,  mult |-> 2]
      [] h = "TwoPair"       -> [chips |-> 20,  mult |-> 2]
      [] h = "ThreeOfAKind"  -> [chips |-> 30,  mult |-> 3]
      [] h = "Straight"      -> [chips |-> 30,  mult |-> 4]
      [] h = "Flush"         -> [chips |-> 35,  mult |-> 4]
      [] h = "FullHouse"     -> [chips |-> 40,  mult |-> 4]
      [] h = "FourOfAKind"   -> [chips |-> 60,  mult |-> 4]
      [] h = "StraightFlush" -> [chips |-> 100, mult |-> 8]
      [] h = "FiveOfAKind"   -> [chips |-> 120, mult |-> 12]
      [] h = "FlushHouse"    -> [chips |-> 140, mult |-> 14]
      [] h = "FlushFive"     -> [chips |-> 160, mult |-> 16]

IsWild(card) == card.enhancement = "Wild"

\* ------------------------------------------------------------------------
\* Sequence helpers.

SeqToSet(s) == {s[i] : i \in DOMAIN s}

\* All orderings of a finite set, as sequences.
RECURSIVE Orderings(_)
Orderings(S) ==
    IF S = {} THEN {<<>>}
    ELSE UNION {{<<x>> \o t : t \in Orderings(S \ {x})} : x \in S}

\* The stable insertion of card c into a sequence sorted by key.
RECURSIVE InsertSorted(_, _)
InsertSorted(s, c) ==
    IF s = <<>> THEN <<c>>
    ELSE IF compute_card_order(s[Len(s)]) <= compute_card_order(c)
         THEN Append(s, c)
         ELSE Append(InsertSorted(SubSeq(s, 1, Len(s) - 1), c), s[Len(s)])

\* hands.rs determine_poker_hand, sorted_by_key: a stable ascending sort.
RECURSIVE sorted_by_key(_)
sorted_by_key(cards) ==
    IF cards = <<>> THEN <<>>
    ELSE InsertSorted(sorted_by_key(SubSeq(cards, 1, Len(cards) - 1)),
                      cards[Len(cards)])

\* ------------------------------------------------------------------------
\* poker/helpers.rs

SuitCount(cards, suit) == Cardinality({i \in DOMAIN cards : cards[i].suit = suit})

\* compute_most_appear_suit: counts_by builds a HashMap and max_by_key keeps
\* the last maximum in its iteration order, so every suit with the highest
\* count is a possible result.  Empty input: the unwrap fails (empty set).
compute_most_appear_suit(cards) ==
    {s \in Suits : /\ SuitCount(cards, s) > 0
                   /\ \A t \in Suits : SuitCount(cards, t) <= SuitCount(cards, s)}

determine_current_suit(on_scored, suit) ==
    \E i \in DOMAIN on_scored : on_scored[i].suit = suit \/ IsWild(on_scored[i])

\* One card of the color is enough.
determine_total_colors_One(on_scored, c) ==
    Cardinality({i \in DOMAIN on_scored :
                    color(on_scored[i].suit) = c \/ IsWild(on_scored[i])}) >= 1

determine_total_colors(on_scored, c) ==
    Cardinality({i \in DOMAIN on_scored :
                    color(on_scored[i].suit) = c \/ IsWild(on_scored[i])}) >= 2

\* ------------------------------------------------------------------------
\* poker/hands.rs: the detectors.  Each scans the windows (cards[i],
\* cards[i+1]); ptr::eq(next, last) is i + 1 = Len(cards).

\* is_high_card with min_by_key in place of max_by_key: the first card of
\* the sorted hand.
is_high_card_Lowest(cards) == <<cards[1]>>

\* The last card with the greatest rank_value (max_by_key keeps the last).
is_high_card(cards) ==
    LET best == CHOOSE i \in DOMAIN cards :
                   /\ \A j \in DOMAIN cards :
                        rank_value(cards[j].rank) <= rank_value(cards[i].rank)
                   /\ \A j \in DOMAIN cards :
                        rank_value(cards[j].rank) = rank_value(cards[i].rank) => j <= i
    IN  <<cards[best]>>

\* The pair as the first of its cards pushed twice.
RECURSIVE is_pair_loop_CurrTwice(_, _)
is_pair_loop_CurrTwice(cards, i) ==
    IF i >= Len(cards) THEN <<>>
    ELSE IF compute_card_order(cards[i]) = compute_card_order(cards[i + 1])
         THEN <<cards[i], cards[i]>>
         ELSE is_pair_loop_CurrTwice(cards, i + 1)

RECURSIVE is_pair_loop(_, _)
is_pair_loop(cards, i) ==
    IF i >= Len(cards) THEN <<>>
    ELSE IF compute_card_order(cards[i]) = compute_card_order(cards[i + 1])
         THEN <<cards[i], cards[i + 1]>>
         ELSE is_pair_loop(cards, i + 1)

is_pair(cards) == is_pair_loop(cards, 1)

RECURSIVE is_two_pair_loop(_, _, _, _)
is_two_pair_loop(cards, i, acc, prev_rank) ==
    IF i >= Len(cards) THEN acc
    ELSE LET curr == cards[i]
             next == cards[i + 1]
             curr_order == compute_card_order(curr)
             next_order == compute_card_order(next)
         IN  IF prev_rank # 0
             THEN IF curr_order = next_order /\ curr_order # prev_rank
                  THEN is_two_pair_loop(cards, i + 1, acc \o <<curr, next>>, prev_rank)
                  ELSE is_two_pair_loop(cards, i + 1, acc, prev_rank)
             ELSE IF curr_order = next_order
                  THEN is_two_pair_loop(cards, i + 1, acc \o <<curr, next>>, curr_order)
                  ELSE is_two_pair_loop(cards, i + 1, acc, prev_rank)

is_two_pair(cards) == is_two_pair_loop(cards, 1, <<>>, 0)

\* The card pushed with curr when next is the last card of the slice.
PushLast(cards, i) == IF i + 1 = Len(cards) THEN <<cards[i + 1]>> ELSE <<>>

\* is_three_of_a_kind without the push of the group's last card when another
\* rank follows it.
RECURSIVE is_three_of_a_kind_loop_NoTail(_, _, _, _)
is_three_of_a_kind_loop_NoTail(cards, i, acc, prev_rank) ==
    IF i >= Len(cards) THEN acc
    ELSE IF compute_card_order(cards[i]) = compute_card_order(cards[i + 1])
         THEN is_three_of_a_kind_loop_NoTail(cards, i + 1,
                  acc \o <<cards[i]>> \o PushLast(cards, i),
                  compute_card_order(cards[i]))
         ELSE is_three_of_a_kind_loop_NoTail(cards, i + 1, acc, prev_rank)

RECURSIVE is_three_of_a_kind_loop(_, _, _, _)
is_three_of_a_kind_loop(cards, i, acc, prev_rank) ==
    IF i >= Len(cards) THEN acc
    ELSE LET curr == cards[i]
             curr_order == compute_card_order(curr)
             next_order == compute_card_order(cards[i + 1])
         IN  IF curr_order = next_order
             THEN is_three_of_a_kind_loop(cards, i + 1,
                      acc \o <<curr>> \o PushLast(cards, i), curr_order)
             ELSE IF curr_order = prev_rank
                  THEN is_three_of_a_kind_loop(cards, i + 1, acc \o <<curr>>, prev_rank)
                  ELSE is_three_of_a_kind_loop(cards, i + 1, acc, prev_rank)

is_three_of_a_kind(cards) == is_three_of_a_kind_loop(cards, 1, <<>>, 0)

\* is_straight without the branch that takes the Ace below the Two.
RECURSIVE is_straight_loop_NoAceLow(_, _, _)
is_straight_loop_NoAceLow(cards, i, acc) ==
    IF i >= Len(cards) THEN acc
    ELSE IF compute_card_order(cards[i + 1]) - compute_card_order(cards[i]) = 1
         THEN is_straight_loop_NoAceLow(cards, i + 1, acc \cup {cards[i], cards[i + 1]})
         ELSE is_straight_loop_NoAceLow(cards, i + 1, {})

\* is_straight keeps its cards as the keys of a HashMap: acc is their set.
RECURSIVE is_straight_loop(_, _, _)
is_straight_loop(cards, i, acc) ==
    IF i >= Len(cards) THEN acc
    ELSE LET curr == cards[i]
             next == cards[i + 1]
             curr_order == compute_card_order(curr)
             next_order == compute_card_order(next)
         IN  IF next_order - curr_order = 1
             THEN is_straight_loop(cards, i + 1, acc \cup {curr, next})
             ELSE IF next.rank = "Ace" /\ curr.rank = "Five"
                  THEN is_straight_loop(cards, i + 1, acc \cup {next})
                  ELSE is_straight_loop(cards, i + 1, {})

\* The key set of the map; is_straight returns it in the map's iteration
\* order, any of Orderings(is_straight_keys(cards)).
is_straight_keys(cards) == is_straight_loop(cards, 1, {})

is_straight(cards) == Orderings(is_straight_keys(cards))

\* is_flush, for the dominant suit compute_most_appear_suit returned.
is_flush(cards, base_suit) ==
    SelectSeq(cards, LAMBDA card : card.suit = base_suit \/ IsWild(card))

RECURSIVE is_full_house_loop(_, _, _, _)
is_full_house_loop(cards, i, acc, prev_rank) ==
    IF i >= Len(cards) THEN acc
    ELSE LET curr == cards[i]
             curr_order == compute_card_order(curr)
             next_order == compute_card_order(cards[i + 1])
         IN  IF prev_rank # 0 /\ curr_order = next_order /\ curr_order # prev_rank
             THEN is_full_house_loop(cards, i + 1,
                      acc \o <<curr>> \o PushLast(cards, i), prev_rank)
             ELSE IF curr_order = next_order
                  THEN is_full_house_loop(cards, i + 1,
                           acc \o <<curr>> \o PushLast(cards, i), curr_order)
                  ELSE IF curr_order = prev_rank
                       THEN is_full_house_loop(cards, i + 1, acc \o <<curr>>, prev_rank)
                       ELSE is_full_house_loop(cards, i + 1, acc, prev_rank)

is_full_house(cards) == is_full_house_loop(cards, 1, <<>>, 0)

RECURSIVE is_four_of_a_kind_loop(_, _, _, _)
is_four_of_a_kind_loop(cards, i, acc, prev_rank) ==
    IF i >= Len(cards) THEN acc
    ELSE LET curr == cards[i]
             curr_order == compute_card_order(curr)
             next_order == compute_card_order(cards[i + 1])
         IN  IF prev_rank = 0 /\ curr_order = next_order
             THEN is_four_of_a_kind_loop(cards, i + 1, acc \o <<curr>>, curr_order)
             ELSE IF curr_order = next_order /\ curr_order = prev_rank
                  THEN is_four_of_a_kind_loop(cards, i + 1,
                           acc \o <<curr>> \o PushLast(cards, i), prev_rank)
                  ELSE IF curr_order # next_order /\ curr_order = prev_rank
                       THEN is_four_of_a_kind_loop(cards, i + 1, acc \o <<curr>>, prev_rank)
                       ELSE is_four_of_a_kind_loop(cards, i + 1, acc, prev_rank)

is_four_of_a_kind(cards) == is_four_of_a_kind_loop(cards, 1, <<>>, 0)

\* is_straight_flush, for the dominant suit its is_flush call got.  The
\* result is cards itself, or the cards of a HashSet in any order, or empty.
is_straight_flush(cards, is_four_finger_exists, base_suit) ==
    LET flush == is_flush(cards, base_suit)
        straight == is_straight_keys(cards)
        nf == Len(flush)
        ns == Cardinality(straight)
    IN  IF nf = 5 /\ ns = 5 THEN {cards}
        ELSE IF /\ is_four_finger_exists
                /\ \/ (nf = 4 /\ ns = 4)
                   \/ (nf = 5 /\ ns = 4)
                   \/ (nf = 4 /\ ns = 5)
             THEN Orderings(SeqToSet(flush) \cup straight)
             ELSE {<<>>}

RECURSIVE is_five_of_a_kind_loop(_, _, _)
is_five_of_a_kind_loop(cards, i, acc) ==
    IF i >= Len(cards) THEN acc
    ELSE IF compute_card_order(cards[i]) = compute_card_order(cards[i + 1])
         THEN is_five_of_a_kind_loop(cards, i + 1,
                  acc \o <<cards[i]>> \o PushLast(cards, i))
         ELSE is_five_of_a_kind_loop(cards, i + 1, acc)

is_five_of_a_kind(cards) == is_five_of_a_kind_loop(cards, 1, <<>>)

\* The push of a card that is of the dominant suit or, failing that, Wild.
PushSuited(card, base_suit) ==
    IF card.suit = base_suit \/ IsWild(card) THEN <<card>> ELSE <<>>

RECURSIVE is_flush_house_loop(_, _, _, _, _)
is_flush_house_loop(cards, i, acc, prev_rank, base_suit) ==
    IF i >= Len(cards) THEN acc
    ELSE LET curr == cards[i]
             next == cards[i + 1]
             curr_order == compute_card_order(curr)
             next_order == compute_card_order(next)
         IN  IF prev_rank # 0 /\ curr_order = next_order /\ curr_order # prev_rank
             THEN is_flush_house_loop(cards, i + 1,
                      acc \o PushSuited(curr, base_suit)
                          \o (IF i + 1 = Len(cards) /\ next.suit = base_suit
                              THEN <<next>>
                              ELSE IF IsWild(next) THEN <<next>> ELSE <<>>),
                      prev_rank, base_suit)
             ELSE IF curr_order = next_order
                  THEN is_flush_house_loop(cards, i + 1,
                           acc \o PushSuited(curr, base_suit), curr_order, base_suit)
                  ELSE IF curr_order = prev_rank /\ curr.suit = base_suit
                       THEN is_flush_house_loop(cards, i + 1, acc \o <<curr>>,
                                                prev_rank, base_suit)
                       ELSE IF IsWild(curr)
                            THEN is_flush_house_loop(cards, i + 1, acc \o <<curr>>,
                                                     prev_rank, base_suit)
                            ELSE is_flush_house_loop(cards, i + 1, acc,
                                                     prev_rank, base_suit)

is_flush_house(cards, base_suit) == is_flush_house_loop(cards, 1, <<>>, 0, base_suit)

RECURSIVE is_flush_five_loop(_, _, _, _)
is_flush_five_loop(cards, i, acc, base_suit) ==
    IF i >= Len(cards) THEN acc
    ELSE IF /\ compute_card_order(cards[i]) = compute_card_order(cards[i + 1])
            /\ cards[i].suit = base_suit
         THEN is_flush_five_loop(cards, i + 1,
                  acc \o <<cards[i]>> \o PushLast(cards, i), base_suit)
         ELSE is_flush_five_loop(cards, i + 1, acc, base_suit)

is_flush_five(cards) == is_flush_five_loop(cards, 1, <<>>, cards[1].suit)

\* ------------------------------------------------------------------------
\* poker/hands.rs determine_poker_hand: the set of (hand, scored cards) it
\* can return.  cards is the played hand, sorted its stable sort.

HasJoker(jokers, j) == \E i \in DOMAIN jokers : jokers[i].joker = j

Found(h, cs) == [hand |-> h, cards |-> cs]

\* Lines 768-796: Straight, ThreeOfAKind, TwoPair, Pair, HighCard.
FromStraight(cards, sorted, is_four_finger_exists) ==
    LET keys == is_straight_keys(sorted)
    IN  IF Cardinality(keys) = 5 THEN {Found("Straight", cards)}
        ELSE IF Cardinality(keys) = 4 /\ is_four_finger_exists
        THEN {Found("Straight", rc) : rc \in is_straight(sorted)}
        ELSE IF Len(is_three_of_a_kind(sorted)) = 3
        THEN {Found("ThreeOfAKind", is_three_of_a_kind(sorted))}
        ELSE IF Len(is_two_pair(sorted)) = 4
        THEN {Found("TwoPair", is_two_pair(sorted))}
        ELSE IF Len(is_pair(sorted)) = 2
        THEN {Found("Pair", is_pair(sorted))}
        ELSE {Found("HighCard", is_high_card(sorted))}

\* Lines 762-766: Flush, for each suit is_flush may take as dominant.
FromFlush(cards, sorted, is_four_finger_exists) ==
    UNION {LET n == Len(is_flush(sorted, base_suit))
           IN  IF n = 5 \/ (n = 4 /\ is_four_finger_exists)
               THEN {Found("Flush", cards)}
               ELSE FromStraight(cards, sorted, is_four_finger_exists)
           : base_suit \in compute_most_appear_suit(sorted)}

\* Lines 750-760: FourOfAKind, FullHouse.
FromFourOfAKind(cards, sorted, is_four_finger_exists) ==
    IF Len(is_four_of_a_kind(sorted)) = 4
    THEN {Found("FourOfAKind", is_four_of_a_kind(sorted))}
    ELSE IF Len(is_full_house(sorted)) = 5
    THEN {Found("FullHouse", cards)}
    ELSE FromFlush(cards, sorted, is_four_finger_exists)

\* Lines 741-748: StraightFlush.
FromStraightFlush(cards, sorted, is_four_finger_exists) ==
    UNION {UNION {IF Len(rc) = 5 THEN {Found("StraightFlush", cards)}
                  ELSE IF Len(rc) = 4 /\ is_four_finger_exists
                  THEN {Found("StraightFlush", rc)}
                  ELSE FromFourOfAKind(cards, sorted, is_four_finger_exists)
                  : rc \in is_straight_flush(sorted, is_four_finger_exists, base_suit)}
           : base_suit \in compute_most_appear_suit(sorted)}

\* Lines 729-739: FlushHouse, FiveOfAKind.
FromFlushHouse(cards, sorted, is_four_finger_exists) ==
    UNION {IF Len(is_flush_house(sorted, base_suit)) = 5
           THEN {Found("FlushHouse", cards)}
           ELSE IF Len(is_five_of_a_kind(sorted)) = 5
           THEN {Found("FiveOfAKind", cards)}
           ELSE FromStraightFlush(cards, sorted, is_four_finger_exists)
           : base_suit \in compute_most_appear_suit(sorted)}

determine_poker_hand(cards, jokers) ==
    LET sorted == sorted_by_key(cards)
        is_four_finger_exists == HasJoker(jokers, "FourFingers")
        n == Len(is_flush_five(sorted))
    IN  IF n = 5 \/ (n = 4 /\ is_four_finger_exists)
        THEN {Found("FlushFive", cards)}
        ELSE FromFlushHouse(cards, sorted, is_four_finger_exists)

\* ------------------------------------------------------------------------
\* Mult arithmetic: a dyadic rational [n, d] in lowest terms.

RECURSIVE Normalize(_, _)
Normalize(n, d) ==
    IF d > 1 /\ n % 2 = 0 THEN Normalize(n \div 2, d \div 2) ELSE [n |-> n, d |-> d]

MultOf(k) == [n |-> k, d |-> 1]
MultAdd(m, k) == Normalize(m.n + k * m.d, m.d)
MultTimes(m, k) == Normalize(m.n * k, m.d)
MultTimesOneAndHalf(m) == Normalize(m.n * 3, m.d * 2)
MultLeq(a, b) == a.n * b.d <= b.n * a.d

\* The (Chips, Mult) pair; fault is set when an unwrap failed on the way.
Res(c, m) == [chips |-> c, mult |-> m, fault |-> FALSE]

\* ------------------------------------------------------------------------
\* poker/modifiers.rs

apply_enhancement(enhancement, input_chip, input_mul, in_hand) ==
    IF ~in_hand
    THEN CASE enhancement = "Bonus" -> Res(input_chip + 30, input_mul)
           [] enhancement = "Mult"  -> Res(input_chip, MultAdd(input_mul, 4))
           [] enhancement = "Wild"  -> Res(input_chip, input_mul)
           [] enhancement = "Glass" -> Res(input_chip, MultTimes(input_mul, 2))
           [] enhancement = "Steel" -> Res(input_chip, input_mul)
    ELSE IF enhancement = "Steel"
         THEN Res(input_chip, MultTimesOneAndHalf(input_mul))
         ELSE Res(input_chip, input_mul)

\* apply_edition without the in_hand test.
apply_edition_AlsoInHand(edition, input_chip, input_mul, in_hand) ==
    CASE edition = "Foil"        -> Res(input_chip + 50, input_mul)
      [] edition = "Holographic" -> Res(input_chip, MultAdd(input_mul, 10))
      [] edition = "Polychrome"  -> Res(input_chip, MultTimesOneAndHalf(input_mul))

apply_edition(edition, input_chip, input_mul, in_hand) ==
    IF ~in_hand
    THEN CASE edition = "Foil"        -> Res(input_chip + 50, input_mul)
           [] edition = "Holographic" -> Res(input_chip, MultAdd(input_mul, 10))
           [] edition = "Polychrome"  -> Res(input_chip, MultTimesOneAndHalf(input_mul))
    ELSE Res(input_chip, input_mul)

\* The for_each body with its two blocks swapped: edition, then enhancement.
compute_enhancement_card_EditionFirst(card, chip, mul, in_hand) ==
    LET e == IF card.edition # "None"
             THEN apply_edition(card.edition, chip, mul, in_hand)
             ELSE Res(chip, mul)
    IN  IF card.enhancement # "None"
        THEN apply_enhancement(card.enhancement, e.chips, e.mult, in_hand)
        ELSE e

\* One card of compute_enhancement's for_each: enhancement, then edition.
compute_enhancement_card(card, chip, mul, in_hand) ==
    LET e == IF card.enhancement # "None"
             THEN apply_enhancement(card.enhancement, chip, mul, in_hand)
             ELSE Res(chip, mul)
    IN  IF card.edition # "None"
        THEN apply_edition(card.edition, e.chips, e.mult, in_hand)
        ELSE e

RECURSIVE compute_enhancement_from(_, _, _, _, _)
compute_enhancement_from(cards, i, chip, mul, in_hand) ==
    IF i > Len(cards) THEN Res(chip, mul)
    ELSE LET r == compute_enhancement_card(cards[i], chip, mul, in_hand)
         IN  compute_enhancement_from(cards, i + 1, r.chips, r.mult, in_hand)

compute_enhancement(cards, chip, mul, in_hand) ==
    compute_enhancement_from(cards, 1, chip, mul, in_hand)

\* ------------------------------------------------------------------------
\* poker/jokers.rs

JollyHands == {"Pair", "TwoPair", "FullHouse", "ThreeOfAKind", "FourOfAKind",
               "FiveOfAKind", "FlushHouse", "FlushFive"}
ZanyHands == {"ThreeOfAKind", "FullHouse", "FlushHouse", "FourOfAKind",
              "FiveOfAKind", "FlushFive"}
MadHands == {"TwoPair", "FullHouse", "FlushHouse"}
CrazyHands == {"Straight", "StraightFlush"}
DrollHands == {"Flush", "FlushFive", "FlushHouse", "FourOfAKind"}

\* The rule applied whatever the hand is.
HandJoker_Always(hand, hands, add_chips, add_mult, chip, mul) ==
    Res(chip + add_chips, MultAdd(mul, add_mult))

\* The rule of a joker whose hands are given: mult + add_mult or
\* chips + add_chips when the hand is one of them.
HandJoker(hand, hands, add_chips, add_mult, chip, mul) ==
    IF hand \in hands THEN Res(chip + add_chips, MultAdd(mul, add_mult))
    ELSE Res(chip, mul)

\* apply_easy_jokers: the blocks of the function test the joker for equality
\* with one variant each, so one block at most acts.
apply_easy_jokers(joker, hand, joker_cards_len, chip, mul) ==
    CASE joker = "Joker"        -> Res(chip, MultAdd(mul, 4))
      [] joker = "JollyJoker"   -> HandJoker(hand, JollyHands, 0, 8, chip, mul)
      [] joker = "SlyJoker"     -> HandJoker(hand, JollyHands, 50, 0, chip, mul)
      [] joker = "ZanyJoker"    -> HandJoker(hand, ZanyHands, 0, 12, chip, mul)
      [] joker = "WilyJoker"    -> HandJoker(hand, ZanyHands, 100, 0, chip, mul)
      [] joker = "MadJoker"     -> HandJoker(hand, MadHands, 0, 10, chip, mul)
      [] joker = "CleverJoker"  -> HandJoker(hand, MadHands, 80, 0, chip, mul)
      [] joker = "CrazyJoker"   -> HandJoker(hand, CrazyHands, 0, 12, chip, mul)
      [] joker = "DeviousJoker" -> HandJoker(hand, CrazyHands, 100, 0, chip, mul)
      [] joker = "DrollJoker"   -> HandJoker(hand, DrollHands, 0, 10, chip, mul)
      [] joker = "CraftyJoker"  -> HandJoker(hand, DrollHands, 80, 0, chip, mul)
      [] joker = "AbstractJoker" -> Res(chip, MultAdd(mul, 3 * joker_cards_len))
      [] OTHER -> Res(chip, mul)

\* The number of cards of a sequence a rule matches.
CountCards(cards, Matches(_)) == Cardinality({i \in DOMAIN cards : Matches(cards[i])})

RECURSIVE TimesOneAndHalfN(_, _)
TimesOneAndHalfN(m, k) ==
    IF k = 0 THEN m ELSE TimesOneAndHalfN(MultTimesOneAndHalf(m), k - 1)

\* RaisedFist, lines 216-227: the rank_value of the lowest held card, doubled;
\* min_by_key yields None on no held card and the unwrap fails.
\* RaisedFist with the greatest rank value where the lowest is taken.
RaisedFist_Highest(on_held, chip, mul) ==
    IF on_held = <<>> THEN [chips |-> chip, mult |-> mul, fault |-> TRUE]
    ELSE LET highest == CHOOSE v \in {rank_value(on_held[i].rank) : i \in DOMAIN on_held} :
                           \A i \in DOMAIN on_held : v >= rank_value(on_held[i].rank)
         IN  Res(chip, MultAdd(mul, highest * 2))

RaisedFist(on_held, chip, mul) ==
    IF on_held = <<>> THEN [chips |-> chip, mult |-> mul, fault |-> TRUE]
    ELSE LET lowest == CHOOSE v \in {rank_value(on_held[i].rank) : i \in DOMAIN on_held} :
                          \A i \in DOMAIN on_held : v <= rank_value(on_held[i].rank)
         IN  Res(chip, MultAdd(mul, lowest * 2))

\* Blackboard without the test for the Wild enhancement.
Blackboard_NoWild(on_held, chip, mul) ==
    LET check == \A i \in DOMAIN on_held : on_held[i].suit \in {"Spades", "Clubs"}
    IN  IF check \/ on_held = <<>> THEN Res(chip, MultTimes(mul, 3)) ELSE Res(chip, mul)

\* Blackboard with mult set to 3 where it is multiplied by 3.
Blackboard_Assigns(on_held, chip, mul) ==
    LET check == \A i \in DOMAIN on_held :
                    IsWild(on_held[i]) \/ on_held[i].suit \in {"Spades", "Clubs"}
    IN  IF check \/ on_held = <<>> THEN Res(chip, MultOf(3)) ELSE Res(chip, mul)

\* Blackboard, lines 229-244.
Blackboard(on_held, chip, mul) ==
    LET check == \A i \in DOMAIN on_held :
                    IsWild(on_held[i]) \/ on_held[i].suit \in {"Spades", "Clubs"}
    IN  IF check \/ on_held = <<>> THEN Res(chip, MultTimes(mul, 3)) ELSE Res(chip, mul)

\* Greedy, Lusty, Wrathful, Gluttonous, lines 256-306: +3 per scored card
\* of the joker's suit, of its smeared twin, or Wild.
SuitJoker(on_scored, suit, twin, is_smeared_exists, chip, mul) ==
    Res(chip, MultAdd(mul, 3 * CountCards(on_scored,
            LAMBDA card : \/ card.suit = suit
                          \/ (card.suit = twin /\ is_smeared_exists)
                          \/ IsWild(card))))

\* FlowerPot, lines 373-387.
FlowerPot(on_scored, is_smeared_exists, chip, mul) ==
    IF Len(on_scored) >= 4
    THEN LET all_suits == \A s \in Suits : determine_current_suit(on_scored, s)
             having_red_cards == determine_total_colors(on_scored, "Red")
             having_black_cards == determine_total_colors(on_scored, "Black")
         IN  IF all_suits \/ (is_smeared_exists /\ having_red_cards /\ having_black_cards)
             THEN Res(chip, MultTimes(mul, 3))
             ELSE Res(chip, mul)
    ELSE Res(chip, mul)

apply_medium_jokers(joker, on_held, on_scored, chip, mul, is_pareidolia_exists, is_smeared_exists) ==
    LET faces == CountCards(on_scored,
                     LAMBDA card : is_face(card.rank) \/ is_pareidolia_exists)
    IN  CASE joker = "RaisedFist" -> RaisedFist(on_held, chip, mul)
          [] joker = "Blackboard" -> Blackboard(on_held, chip, mul)
          [] joker = "Baron" ->
               Res(chip, TimesOneAndHalfN(mul,
                       CountCards(on_held, LAMBDA card : card.rank = "King")))
          [] joker = "GreedyJoker" ->
               SuitJoker(on_scored, "Diamonds", "Hearts", is_smeared_exists, chip, mul)
          [] joker = "LustyJoker" ->
               SuitJoker(on_scored, "Hearts", "Diamonds", is_smeared_exists, chip, mul)
          [] joker = "WrathfulJoker" ->
               SuitJoker(on_scored, "Spades", "Clubs", is_smeared_exists, chip, mul)
          [] joker = "GluttonousJoker" ->
               SuitJoker(on_scored, "Clubs", "Spades", is_smeared_exists, chip, mul)
          [] joker = "Fibonacci" ->
               Res(chip, MultAdd(mul, 8 * CountCards(on_scored,
                       LAMBDA card : card.rank \in {"Ace", "Two", "Three", "Five", "Eight"})))
          [] joker = "ScaryFace" -> Res(chip + 30 * faces, mul)
          [] joker = "EvenSteven" ->
               Res(chip, MultAdd(mul, 4 * CountCards(on_scored,
                       LAMBDA card : /\ compute_card_order(card) <= 10
                                     /\ compute_card_order(card) % 2 = 0)))
          [] joker = "OddTodd" ->
               Res(chip + 31 * CountCards(on_scored,
                       LAMBDA card : \/ compute_card_order(card) = 14
                                     \/ /\ compute_card_order(card) < 10
                                        /\ compute_card_order(card) % 2 # 0), mul)
          [] joker = "Photograph" ->
               IF faces > 0 THEN Res(chip, MultTimes(mul, 2)) ELSE Res(chip, mul)
          [] joker = "SmileyFace" -> Res(chip, MultAdd(mul, 5 * faces))
          [] joker = "FlowerPot" -> FlowerPot(on_scored, is_smeared_exists, chip, mul)
          [] OTHER -> Res(chip, mul)

independent_jokers == {"Joker", "JollyJoker", "ZanyJoker", "MadJoker", "CrazyJoker",
                       "DrollJoker", "SlyJoker", "WilyJoker", "CleverJoker",
                       "DeviousJoker", "CraftyJoker", "AbstractJoker", "Blackboard",
                       "FlowerPot"}
on_scored_jokers == {"GreedyJoker", "LustyJoker", "WrathfulJoker", "GluttonousJoker",
                     "Fibonacci", "ScaryFace", "EvenSteven", "OddTodd", "Photograph",
                     "SmileyFace", "SockAndBuskin"}
\* The held-context list with Blackboard, which the independent list has.
on_held_jokers_WithBlackboard == {"RaisedFist", "Baron", "Mime", "Blackboard"}

on_held_jokers == {"RaisedFist", "Baron", "Mime"}

\* A pass that does not filter the joker cards by its group.
ApplyJokerCard_Unfiltered(card, group, joker_cards, on_held_cards, on_scored_cards, hand, r) ==
    LET is_pareidolia_exists == HasJoker(joker_cards, "Pareidolia")
        is_smeared_exists == HasJoker(joker_cards, "SmearedJoker")
    IN  IF r.fault THEN r
        ELSE IF group = independent_jokers
        THEN LET e == apply_easy_jokers(card.joker, hand, Len(joker_cards),
                                        r.chips, r.mult)
             IN  apply_medium_jokers(card.joker, on_held_cards, on_scored_cards,
                                     e.chips, e.mult,
                                     is_pareidolia_exists, is_smeared_exists)
        ELSE apply_medium_jokers(card.joker, on_held_cards, on_scored_cards,
                                 r.chips, r.mult,
                                 is_pareidolia_exists, is_smeared_exists)

\* One joker card of a pass of joker_application over the jokers of group;
\* a failed unwrap ends the run, so nothing is applied after a fault.
ApplyJokerCard(card, group, joker_cards, on_held_cards, on_scored_cards, hand, r) ==
    LET is_pareidolia_exists == HasJoker(joker_cards, "Pareidolia")
        is_smeared_exists == HasJoker(joker_cards, "SmearedJoker")
    IN  IF r.fault \/ card.joker \notin group THEN r
        ELSE IF group = independent_jokers
        THEN LET e == apply_easy_jokers(card.joker, hand, Len(joker_cards),
                                        r.chips, r.mult)
             IN  apply_medium_jokers(card.joker, on_held_cards, on_scored_cards,
                                     e.chips, e.mult,
                                     is_pareidolia_exists, is_smeared_exists)
        ELSE apply_medium_jokers(card.joker, on_held_cards, on_scored_cards,
                                 r.chips, r.mult,
                                 is_pareidolia_exists, is_smeared_exists)

\* A pass that visits the joker cards from the last to the first.
RECURSIVE JokerPass_Reversed(_, _, _, _, _, _, _)
JokerPass_Reversed(i, group, joker_cards, on_held_cards, on_scored_cards, hand, r) ==
    IF i > Len(joker_cards) THEN r
    ELSE ApplyJokerCard(joker_cards[i], group, joker_cards,
                        on_held_cards, on_scored_cards, hand,
                        JokerPass_Reversed(i + 1, group, joker_cards, on_held_cards,
                                           on_scored_cards, hand, r))

RECURSIVE JokerPass(_, _, _, _, _, _, _)
JokerPass(i, group, joker_cards, on_held_cards, on_scored_cards, hand, r) ==
    IF i > Len(joker_cards) THEN r
    ELSE JokerPass(i + 1, group, joker_cards, on_held_cards, on_scored_cards, hand,
                   ApplyJokerCard(joker_cards[i], group, joker_cards,
                                  on_held_cards, on_scored_cards, hand, r))

\* Lines 535-542: the edition of each joker card, in sequence order.
RECURSIVE JokerEditions(_, _, _)
JokerEditions(i, joker_cards, r) ==
    IF i > Len(joker_cards) \/ r.fault THEN r
    ELSE JokerEditions(i + 1, joker_cards,
             IF joker_cards[i].edition # "None"
             THEN apply_edition(joker_cards[i].edition, r.chips, r.mult, FALSE)
             ELSE r)

\* joker_application as one pass: each joker card's rule and then its
\* edition, in sequence order.
RECURSIVE JokerInSequence(_, _, _, _, _, _)
JokerInSequence(i, joker_cards, on_held_cards, on_scored_cards, hand, r) ==
    IF i > Len(joker_cards) \/ r.fault THEN r
    ELSE LET card == joker_cards[i]
             group == IF card.joker \in on_scored_jokers THEN on_scored_jokers
                      ELSE IF card.joker \in on_held_jokers THEN on_held_jokers
                      ELSE independent_jokers
             e == ApplyJokerCard(card, group, joker_cards, on_held_cards,
                                 on_scored_cards, hand, r)
         IN  JokerInSequence(i + 1, joker_cards, on_held_cards, on_scored_cards, hand,
                 IF card.edition # "None" /\ ~e.fault
                 THEN apply_edition(card.edition, e.chips, e.mult, FALSE)
                 ELSE e)

joker_application_InSequence(joker_cards, on_held_cards, on_scored_cards, hand, chip, mul) ==
    JokerInSequence(1, joker_cards, on_held_cards, on_scored_cards, hand, Res(chip, mul))

joker_application(joker_cards, on_held_cards, on_scored_cards, hand, chip, mul) ==
    LET scored == JokerPass(1, on_scored_jokers, joker_cards, on_held_cards,
                            on_scored_cards, hand, Res(chip, mul))
        held == JokerPass(1, on_held_jokers, joker_cards, on_held_cards,
                          on_scored_cards, hand, scored)
        independent == JokerPass(1, independent_jokers, joker_cards, on_held_cards,
                                 on_scored_cards, hand, held)
    IN  JokerEditions(1, joker_cards, independent)

\* ------------------------------------------------------------------------
\* poker/scoring.rs

\* The fold of line 58 stopping one card short.
RECURSIVE SumRankValue_SkipLast(_, _, _)
SumRankValue_SkipLast(cards, i, acc) ==
    IF i >= Len(cards) THEN acc
    ELSE SumRankValue_SkipLast(cards, i + 1, acc + rank_value(cards[i].rank))

RECURSIVE SumRankValue(_, _, _)
SumRankValue(cards, i, acc) ==
    IF i > Len(cards) THEN acc
    ELSE SumRankValue(cards, i + 1, acc + rank_value(cards[i].rank))

\* The working set without the Splash test: always the classifier's cards.
OnScoredCards_IgnoreSplash(round, return_card) == return_card

\* Lines 46-53: the cards the modifiers and the jokers score.
OnScoredCards(round, return_card) ==
    IF ~HasJoker(round.jokers, "Splash") THEN return_card ELSE round.cards_played

\* score, for one result (hand, return_card) of determine_poker_hand.
ScoreWith(round, found) ==
    LET base == hand_value(found.hand)
        on_scored_cards == OnScoredCards(round, found.cards)
        chips == SumRankValue(on_scored_cards, 1, base.chips)
        scored == compute_enhancement(on_scored_cards, chips, MultOf(base.mult), FALSE)
        held == compute_enhancement(round.cards_held_in_hand, scored.chips,
                                    scored.mult, TRUE)
        r == joker_application(round.jokers, round.cards_held_in_hand,
                               on_scored_cards, found.hand, held.chips, held.mult)
    IN  [hand |-> found.hand, return_card |-> found.cards,
         on_scored_cards |-> on_scored_cards, rank_chips |-> chips,
         chips |-> r.chips, mult |-> r.mult, fault |-> r.fault]

\* Every outcome of score on a round.
score(round) ==
    {ScoreWith(round, found) :
        found \in determine_poker_hand(round.cards_played, round.jokers)}

\* ------------------------------------------------------------------------
\* main.rs: the command-line program, with its own score and detectors.
\* The cards are examined in the order played; a Round has a played card.

\* Lines 63-71: the last card of the greatest rank value.
main_is_high_card(cards) ==
    LET best == CHOOSE i \in DOMAIN cards :
                   /\ \A j \in DOMAIN cards :
                        rank_value(cards[j].rank) <= rank_value(cards[i].rank)
                   /\ \A j \in DOMAIN cards :
                        rank_value(cards[j].rank) = rank_value(cards[i].rank) => j <= i
    IN  <<cards[best]>>

\* Lines 77-89: the first two neighbours of one rank value.
RECURSIVE main_is_pair_loop(_, _)
main_is_pair_loop(cards, i) ==
    IF i >= Len(cards) THEN <<>>
    ELSE IF rank_value(cards[i].rank) = rank_value(cards[i + 1].rank)
         THEN <<cards[i], cards[i + 1]>>
         ELSE main_is_pair_loop(cards, i + 1)

main_is_pair(cards) == main_is_pair_loop(cards, 1)

\* Lines 94-105: the HashSet of the neighbours of one rank value, collected
\* in the order the HashSet yields them.
main_is_three_of_a_kind_set(cards) ==
    UNION {{cards[i], cards[i + 1]} :
              i \in {k \in 1..(Len(cards) - 1) :
                        rank_value(cards[k].rank) = rank_value(cards[k + 1].rank)}}

main_is_three_of_a_kind(cards) == Orderings(main_is_three_of_a_kind_set(cards))

\* Lines 108-127.
main_determine_poker_hand(cards) ==
    IF Cardinality(main_is_three_of_a_kind_set(cards)) = 3
    THEN {Found("ThreeOfAKind", cs) : cs \in main_is_three_of_a_kind(cards)}
    ELSE IF Len(main_is_pair(cards)) = 2
    THEN {Found("Pair", main_is_pair(cards))}
    ELSE {Found("HighCard", main_is_high_card(cards))}

\* Lines 44-58: the returned (chips, mult) and the two lines score prints.
main_score(round) ==
    {LET base == hand_value(found.hand)
     IN  [chips |-> SumRankValue(found.cards, 1, base.chips),
          mult |-> MultOf(base.mult),
          printed |-> <<<<base.chips, base.mult>>, <<found.cards>>>>] :
        found \in main_determine_poker_hand(round.cards_played)}

\* (chips * mult).floor(), line 28.
Floor(chips, mult) == (chips * mult.n) \div mult.d

\* Lines 22-30: the lines main and its score write to standard output.
main(round) ==
    {Append(r.printed, <<Floor(r.chips, r.mult)>>) : r \in main_score(round)}

\* ------------------------------------------------------------------------
\* The state machine.  A round is given and score is invoked on it, MaxRuns
\* times over.  results holds what each invocation returned; hand,
\* return_card, on_scored_cards and rank_chips are the locals of the latest
\* invocation: the classifier's result, the working scored set, and the
\* chips after the rank values were added (scoring.rs line 58).  stdout
\* holds the lines the command-line program wrote, each the values of one
\* println.

VARIABLES round, results, hand, return_card, on_scored_cards, rank_chips, stdout

vars == <<round, results, hand, return_card, on_scored_cards, rank_chips, stdout>>

\* The number of invocations of score on one round.
MaxRuns == 2

\* The number of cards of a full played hand (hands.rs tests len() == 5).
HandSize == 5

\* The greatest number of held cards of the scoring rounds.
MaxHeld == 1

Card(r, s, enh, ed) == [rank |-> r, suit |-> s, enhancement |-> enh, edition |-> ed]
Plain(r, s) == Card(r, s, "None", "None")
Wild(r, s) == Card(r, s, "Wild", "None")
JokerCard(j, ed) == [joker |-> j, edition |-> ed]
J(j) == JokerCard(j, "None")

Round(played, held, jokers) ==
    [cards_played |-> played, cards_held_in_hand |-> held, jokers |-> jokers]

\* The sequences over deck of length n, and of lengths lo .. hi.
RECURSIVE SeqsOfLen(_, _)
SeqsOfLen(deck, n) ==
    IF n = 0 THEN {<<>>}
    ELSE {Append(s, c) : s \in SeqsOfLen(deck, n - 1), c \in deck}

SeqsUpTo(deck, lo, hi) == UNION {SeqsOfLen(deck, n) : n \in lo..hi}

\* The sequences of distinct cards of deck of lengths lo .. hi.
Deals(deck, lo, hi) ==
    {s \in SeqsUpTo(deck, lo, hi) : \A i, j \in DOMAIN s : i # j => s[i] # s[j]}

\* A round on which score panics: RaisedFist and no held card.
PanicRounds(deck) == {Round(<<c>>, <<>>, <<J("RaisedFist")>>) : c \in deck}

\* Suits and Wild cards: two suits, three ranks that form no straight.
SuitDeck == {Plain("Ace", "Hearts"), Plain("Ace", "Spades"), Wild("Ace", "Spades"),
             Plain("King", "Hearts"), Wild("King", "Spades"), Wild("Nine", "Spades")}

\* Runs of ranks: Five to Eight, a card below, a card above, and two cards
\* whose modifiers do not commute.
RunDeck == {Plain("Two", "Spades"), Card("Five", "Hearts", "Mult", "None"),
            Card("Six", "Spades", "Glass", "None"), Plain("Seven", "Hearts"),
            Plain("Eight", "Spades"), Plain("King", "Hearts")}

\* One suit, Ace to Six and Ten to Ace: the straight flushes of both ends.
LowDeck == {Plain(r, "Hearts") : r \in {"Ace", "Two", "Three", "Four", "Five", "Six"}}
HighDeck == {Plain(r, "Hearts") : r \in {"Ten", "Jack", "Queen", "King", "Ace"}}

\* Scoring: the cards of the documented Pair example and two modified cards,
\* held cards, and the jokers that act on the pipeline itself.
ScoreDeck == {Plain("King", "Hearts"), Plain("King", "Spades"),
              Plain("Three", "Clubs"), Plain("Seven", "Diamonds"),
              Plain("Nine", "Hearts"), Card("Three", "Hearts", "Bonus", "Foil")}

HeldDeck == {Plain("Queen", "Hearts"), Card("King", "Clubs", "Steel", "None")}

ScoreJokers == {<<>>, <<J("Splash")>>, <<J("RaisedFist")>>}

InitWith(rounds) ==
    /\ round \in rounds
    /\ results = <<>>
    /\ hand = "None"
    /\ return_card = <<>>
    /\ on_scored_cards = <<>>
    /\ rank_chips = 0
    /\ stdout = <<>>

\* The scoring rounds.
Init ==
    InitWith({Round(p, h, j) : p \in Deals(ScoreDeck, 1, HandSize),
                               h \in Deals(HeldDeck, 0, MaxHeld),
                               j \in ScoreJokers})

\* The rounds of suits and Wild cards, with and without FourFingers.
InitSuits ==
    InitWith({Round(p, <<>>, j) : p \in SeqsUpTo(SuitDeck, 1, HandSize),
                                  j \in {<<>>, <<J("FourFingers")>>}}
             \cup PanicRounds(SuitDeck))

\* The rounds of runs, with and without FourFingers, and the one-suit
\* five-card hands of both ends.
InitRuns ==
    InitWith({Round(p, <<>>, j) : p \in SeqsUpTo(RunDeck, 1, HandSize),
                                  j \in {<<>>, <<J("FourFingers")>>}}
             \cup {Round(p, <<>>, <<>>) :
                      p \in SeqsOfLen(LowDeck, HandSize) \cup SeqsOfLen(HighDeck, HandSize)}
             \cup PanicRounds(RunDeck))

\* Mixed suits, Ace to Five: the runs that the Ace closes from below.
AceDeck == {Plain("Ace", "Spades"), Plain("Two", "Hearts"), Plain("Three", "Hearts"),
            Plain("Four", "Spades"), Plain("Five", "Hearts")}

\* The rounds of the Ace below the Two, with and without FourFingers.
InitAces ==
    InitWith({Round(p, <<>>, j) : p \in SeqsUpTo(AceDeck, 1, HandSize),
                                  j \in {<<>>, <<J("FourFingers")>>}}
             \cup PanicRounds(AceDeck))

\* Distinct ranks that form no run, in four suits, unmodified.
OddDeck == {Plain("Two", "Clubs"), Plain("Four", "Diamonds"), Plain("Seven", "Hearts"),
            Plain("Nine", "Spades"), Plain("Jack", "Hearts"), Plain("King", "Clubs"),
            Plain("Ace", "Diamonds")}

\* The rounds of distinct cards of OddDeck, without jokers.
InitHigh ==
    InitWith({Round(p, <<>>, <<>>) : p \in Deals(OddDeck, 1, HandSize)}
             \cup PanicRounds(OddDeck))

\* Every enhancement and every edition, among them a Glass card with
\* Polychrome and a Mult card with Polychrome.
ModDeck == {Card("Seven", "Hearts", "Bonus", "None"),
            Card("Seven", "Spades", "Mult", "Polychrome"),
            Card("Nine", "Clubs", "Glass", "Polychrome"),
            Card("Nine", "Diamonds", "None", "Holographic"),
            Card("King", "Hearts", "Wild", "Foil"),
            Card("King", "Spades", "Steel", "None")}

\* The greatest number of held cards of the rounds of held modifiers.
MaxHeldModified == 3

\* The rounds of scored modifiers: no held card, with and without Splash.
InitScoredModifiers ==
    InitWith({Round(p, <<>>, j) : p \in Deals(ModDeck, 1, HandSize),
                                  j \in {<<>>, <<J("Splash")>>}}
             \cup PanicRounds(ModDeck))

\* The rounds of held modifiers: unmodified played cards, no jokers.
InitHeldModifiers ==
    InitWith({Round(p, h, <<>>) :
                 p \in {<<Plain("Seven", "Hearts")>>,
                        <<Plain("King", "Clubs"), Plain("Two", "Spades"),
                          Plain("King", "Diamonds")>>},
                 h \in Deals(ModDeck, 0, MaxHeldModified)}
             \cup PanicRounds(ModDeck))

\* Jokers of the three phases, additive and multiplicative, three of them
\* with an edition.
JokerDeck == {J("Joker"), J("Blackboard"), J("Photograph"), J("SmileyFace"),
              J("RaisedFist"), JokerCard("Baron", "Polychrome"),
              JokerCard("JollyJoker", "Holographic"), JokerCard("AbstractJoker", "Foil")}

\* The greatest number of joker cards of the rounds of jokers.
MaxJokers == 3

\* A Pair of Kings with a kicker, and a Flush without face cards.
JokerHands == {<<Plain("King", "Hearts"), Plain("King", "Spades"), Plain("Three", "Clubs")>>,
               <<Plain("Two", "Hearts"), Plain("Five", "Hearts"), Plain("Nine", "Hearts"),
                 Plain("Seven", "Hearts"), Plain("Ten", "Hearts")>>}

\* No held card, a black King, a red Queen.
JokerHelds == {<<>>, <<Plain("King", "Clubs")>>, <<Plain("Queen", "Hearts")>>}

\* The rounds of jokers: every sequence of distinct joker cards.
InitJokers ==
    InitWith({Round(p, h, j) : p \in JokerHands, h \in JokerHelds,
                               j \in Deals(JokerDeck, 0, MaxJokers)}
             \cup PanicRounds(HeldDeck))

\* One played hand of unmodified cards for each combination.
HandExamples ==
    {<<Plain("Two", "Clubs"), Plain("Four", "Hearts"), Plain("Seven", "Spades"),
       Plain("Nine", "Hearts"), Plain("King", "Diamonds")>>,
     <<Plain("Two", "Clubs"), Plain("Two", "Hearts"), Plain("Seven", "Spades"),
       Plain("Nine", "Hearts"), Plain("King", "Diamonds")>>,
     <<Plain("Two", "Clubs"), Plain("Two", "Hearts"), Plain("Seven", "Spades"),
       Plain("Seven", "Hearts"), Plain("King", "Diamonds")>>,
     <<Plain("Two", "Clubs"), Plain("Two", "Hearts"), Plain("Two", "Spades"),
       Plain("Nine", "Hearts"), Plain("King", "Diamonds")>>,
     <<Plain("Five", "Clubs"), Plain("Six", "Hearts"), Plain("Seven", "Spades"),
       Plain("Eight", "Hearts"), Plain("Nine", "Diamonds")>>,
     <<Plain("Two", "Hearts"), Plain("Four", "Hearts"), Plain("Seven", "Hearts"),
       Plain("Nine", "Hearts"), Plain("King", "Hearts")>>,
     <<Plain("Two", "Clubs"), Plain("Two", "Hearts"), Plain("Two", "Spades"),
       Plain("Nine", "Hearts"), Plain("Nine", "Diamonds")>>,
     <<Plain("Two", "Clubs"), Plain("Two", "Hearts"), Plain("Two", "Spades"),
       Plain("Two", "Diamonds"), Plain("King", "Diamonds")>>,
     <<Plain("Five", "Hearts"), Plain("Six", "Hearts"), Plain("Seven", "Hearts"),
       Plain("Eight", "Hearts"), Plain("Nine", "Hearts")>>,
     <<Plain("Two", "Clubs"), Plain("Two", "Hearts"), Plain("Two", "Spades"),
       Plain("Two", "Diamonds"), Plain("Two", "Hearts")>>,
     <<Plain("Two", "Hearts"), Plain("Two", "Hearts"), Plain("Two", "Hearts"),
       Plain("Nine", "Hearts"), Plain("Nine", "Hearts")>>,
     <<Plain("Two", "Hearts"), Plain("Two", "Hearts"), Plain("Two", "Hearts"),
       Plain("Two", "Hearts"), Plain("Two", "Hearts")>>}

\* The orders a hand is played in when its first cards are moved to its end.
Rotations(cards) ==
    {SubSeq(cards, k + 1, Len(cards)) \o SubSeq(cards, 1, k) : k \in 0..(Len(cards) - 1)}

\* The rounds of the combinations.
InitHands ==
    InitWith({Round(q, <<>>, <<>>) : q \in UNION {Rotations(p) : p \in HandExamples}}
             \cup PanicRounds(HeldDeck))

\* The rounds given to the command-line program: up to MaxMainCards cards,
\* three Kings among them, with and without a joker.
MainDeck == {Plain("King", "Hearts"), Plain("King", "Spades"), Plain("King", "Clubs"),
             Plain("Three", "Clubs"), Card("Three", "Hearts", "Bonus", "None")}

MaxMainCards == 3

InitMain ==
    InitWith({Round(p, <<>>, j) : p \in Deals(MainDeck, 1, MaxMainCards),
                                  j \in {<<>>, <<J("Joker")>>}}
             \cup PanicRounds(HeldDeck))

\* The jokers of apply_easy_jokers that look at the hand.
HandJokers == {"JollyJoker", "SlyJoker", "ZanyJoker", "WilyJoker", "MadJoker",
               "CleverJoker", "CrazyJoker", "DeviousJoker", "DrollJoker", "CraftyJoker"}

\* Each combination with each of these jokers, and with none.
InitHandJokers ==
    InitWith({Round(p, <<>>, j) : p \in HandExamples,
                                  j \in {<<>>} \cup {<<J(k)>> : k \in HandJokers}}
             \cup PanicRounds(HeldDeck))

\* The rounds of the jokers that look at the held cards: black, red and Wild
\* held cards of several ranks, up to MaxHeldByJokers of them.
HeldJokerDeck == {Plain("King", "Clubs"), Plain("Queen", "Hearts"), Plain("Ace", "Spades"),
                  Plain("Two", "Diamonds"), Wild("Queen", "Hearts")}

MaxHeldByJokers == 2

InitHeldJokers ==
    InitWith({Round(p, h, j) :
                 p \in {<<Plain("Seven", "Diamonds")>>,
                        <<Plain("King", "Hearts"), Plain("King", "Spades"),
                          Plain("Three", "Clubs")>>},
                 h \in Deals(HeldJokerDeck, 0, MaxHeldByJokers),
                 j \in {<<>>, <<J("RaisedFist")>>, <<J("Blackboard")>>}})

\* The rounds of FlowerPot: three to HandSize cards of a deck of the four
\* suits and a Wild card, in the order of the deck, with FlowerPot and with
\* or without SmearedJoker and Splash.
PotDeck == <<Plain("King", "Hearts"), Plain("Three", "Diamonds"), Plain("Seven", "Spades"),
             Plain("Nine", "Clubs"), Plain("Jack", "Hearts"), Plain("Five", "Spades"),
             Wild("Queen", "Diamonds")>>

\* The cards of deck at the places of S, in the order of deck.
RECURSIVE Pick(_, _)
Pick(deck, S) ==
    IF deck = <<>> THEN <<>>
    ELSE LET rest == Pick(SubSeq(deck, 1, Len(deck) - 1), S)
         IN  IF Len(deck) \in S THEN Append(rest, deck[Len(deck)]) ELSE rest

PotJokers == {<<J("FlowerPot")>>, <<J("FlowerPot"), J("SmearedJoker")>>,
              <<J("Splash"), J("FlowerPot")>>,
              <<J("SmearedJoker"), J("Splash"), J("FlowerPot")>>}

InitPot ==
    InitWith({Round(Pick(PotDeck, S), <<>>, j) :
                 S \in {T \in SUBSET DOMAIN PotDeck : Cardinality(T) \in 3..HandSize},
                 j \in PotJokers}
             \cup PanicRounds(HeldDeck))

\* Hands played in several orders, with and without FourFingers: four Aces
\* of Hearts and one of Spades, a Pair, a Straight, four Hearts and a Spade.
OrderHands ==
    {<<Plain("Ace", "Hearts"), Plain("Ace", "Hearts"), Plain("Ace", "Hearts"),
       Plain("Ace", "Hearts"), Plain("Ace", "Spades")>>,
     <<Plain("King", "Hearts"), Plain("King", "Spades"), Plain("Three", "Clubs"),
       Plain("Seven", "Diamonds"), Plain("Nine", "Hearts")>>,
     <<Plain("Five", "Clubs"), Plain("Six", "Hearts"), Plain("Seven", "Spades"),
       Plain("Eight", "Hearts"), Plain("Nine", "Diamonds")>>,
     <<Plain("Two", "Hearts"), Plain("Four", "Hearts"), Plain("Seven", "Hearts"),
       Plain("Nine", "Hearts"), Plain("King", "Spades")>>}

InitOrder ==
    InitWith({Round(q, <<>>, j) : q \in UNION {Rotations(p) : p \in OrderHands},
                                  j \in {<<>>, <<J("FourFingers")>>}}
             \cup PanicRounds(HeldDeck))

\* The rounds of flushes and straights that share cards or do not: four or
\* HandSize cards of the deck, in its order, with and without FourFingers.
MixedDeck == <<Plain("Two", "Hearts"), Plain("Five", "Hearts"), Plain("Six", "Hearts"),
               Plain("Seven", "Hearts"), Plain("Eight", "Spades"), Plain("Eight", "Hearts"),
               Plain("Nine", "Spades")>>

InitMixed ==
    InitWith({Round(Pick(MixedDeck, S), <<>>, j) :
                 S \in {T \in SUBSET DOMAIN MixedDeck : Cardinality(T) \in 4..HandSize},
                 j \in {<<>>, <<J("FourFingers")>>}}
             \cup PanicRounds(HeldDeck))

\* The rounds of one joker card: every variant the function lists or tests,
\* with every edition.
RuleLessJokers == {"FourFingers", "Splash", "Pareidolia", "SmearedJoker"}
Editions == {"None", "Foil", "Holographic", "Polychrome"}

InitOneJoker ==
    InitWith({Round(p, h, <<JokerCard(k, e)>>) :
                 p \in JokerHands, h \in {<<>>, <<Plain("King", "Clubs")>>},
                 k \in independent_jokers \cup on_scored_jokers \cup on_held_jokers
                        \cup RuleLessJokers,
                 e \in Editions})

\* The locals of an invocation that ended as r.
Locals(r) ==
    /\ hand' = r.hand
    /\ return_card' = r.return_card
    /\ on_scored_cards' = r.on_scored_cards
    /\ rank_chips' = r.rank_chips
    /\ UNCHANGED <<round, stdout>>

\* One invocation of score that returns (chips, mult).
Score ==
    /\ Len(results) < MaxRuns
    /\ \E r \in score(round) :
          /\ ~r.fault
          /\ results' = Append(results, [chips |-> r.chips, mult |-> r.mult,
                                         fault |-> FALSE])
          /\ Locals(r)

\* One invocation of score that panics on a failed unwrap: nothing is
\* returned.
ScorePanics ==
    /\ Len(results) < MaxRuns
    /\ \E r \in score(round) :
          /\ r.fault
          /\ results' = Append(results, [chips |-> 0, mult |-> MultOf(0),
                                         fault |-> TRUE])
          /\ Locals(r)

Next == Score \/ ScorePanics

\* One run of the command-line program on the round.
Main ==
    /\ stdout = <<>>
    /\ round.cards_played # <<>>
    /\ stdout' \in main(round)
    /\ UNCHANGED <<round, results, hand, return_card, on_scored_cards, rank_chips>>

NextMain == Score \/ ScorePanics \/ Main

Spec == Init /\ [][Next]_vars
SpecSuits == InitSuits /\ [][Next]_vars
SpecRuns == InitRuns /\ [][Next]_vars
SpecAces == InitAces /\ [][Next]_vars
SpecHigh == InitHigh /\ [][Next]_vars
SpecJokers == InitJokers /\ [][Next]_vars
SpecHands == InitHands /\ [][Next]_vars
SpecMain == InitMain /\ [][NextMain]_vars
SpecOneJoker == InitOneJoker /\ [][Next]_vars
SpecMixed == InitMixed /\ [][Next]_vars
SpecOrder == InitOrder /\ [][Next]_vars
SpecPot == InitPot /\ [][Next]_vars
SpecHeldJokers == InitHeldJokers /\ [][Next]_vars
SpecHandJokers == InitHandJokers /\ [][Next]_vars
SpecScoredModifiers == InitScoredModifiers /\ [][Next]_vars
SpecHeldModifiers == InitHeldModifiers /\ [][Next]_vars

\* Some invocation has run; the locals are those of the latest.
Scored == Len(results) > 0
Returned == Scored /\ ~results[Len(results)].fault

\* ------------------------------------------------------------------------
\* The statements checked of score and determine_poker_hand.

Played == round.cards_played
FourFingers == HasJoker(round.jokers, "FourFingers")
Splash == HasJoker(round.jokers, "Splash")
LastResult == results[Len(results)]

\* The rank order of the specification: Two = 2 .. Ten = 10, Jack = 11,
\* Queen = 12, King = 13, Ace = 14.
RankOrder == <<"Two", "Three", "Four", "Five", "Six", "Seven", "Eight", "Nine",
               "Ten", "Jack", "Queen", "King", "Ace">>
rank_order(rank) == 1 + CHOOSE i \in DOMAIN RankOrder : RankOrder[i] = rank

RECURSIVE RankOrderSum(_)
RankOrderSum(cards) ==
    IF cards = <<>> THEN 0
    ELSE rank_order(Head(cards).rank) + RankOrderSum(Tail(cards))

\* Card c counts as rank value v: the Ace as 14 or as 1.
RankIs(c, v) == rank_order(c.rank) = v \/ (v = 1 /\ c.rank = "Ace")
\* Card c satisfies suit s: it is of suit s or Wild.
Suited(c, s) == c.suit = s \/ IsWild(c)
Unmodified(c) == c.enhancement = "None" /\ c.edition = "None"

RankCount(cards, rank) == Cardinality({i \in DOMAIN cards : cards[i].rank = rank})
SuitedCount(cards, s) == Cardinality({i \in DOMAIN cards : Suited(cards[i], s)})
AllSuited(cards) == \E s \in Suits : \A i \in DOMAIN cards : Suited(cards[i], s)
OneSuit(cards) == \A i, j \in DOMAIN cards : cards[i].suit = cards[j].suit
MostFrequentSuits(cards) ==
    {s \in Suits : /\ \E i \in DOMAIN cards : cards[i].suit = s
                   /\ \A t \in Suits : SuitCount(cards, t) <= SuitCount(cards, s)}

\* The lowest rank values k of the runs k .. k + n - 1 that cards contain.
RunsOf(cards, n) ==
    {k \in 1..(15 - n) : \A v \in k..(k + n - 1) : \E i \in DOMAIN cards : RankIs(cards[i], v)}

FlushFiveShape(cards, four) ==
    \E r \in Ranks, s \in Suits :
        Cardinality({i \in DOMAIN cards : cards[i].rank = r /\ Suited(cards[i], s)})
            >= (IF four THEN 4 ELSE 5)

FullHouseShape(cards) ==
    /\ Len(cards) = 5
    /\ \E r1, r2 \in Ranks :
          r1 # r2 /\ RankCount(cards, r1) = 3 /\ RankCount(cards, r2) = 2

FlushOrStronger == {"Flush", "FullHouse", "FourOfAKind", "StraightFlush",
                    "FiveOfAKind", "FlushHouse", "FlushFive"}

\* The documented Pair scenario: King, King, Three, Seven, Nine in any order,
\* no jokers, no modified card.
PairExample ==
    /\ Len(Played) = 5
    /\ SeqToSet(Played) = {Plain("King", "Hearts"), Plain("King", "Spades"),
                           Plain("Three", "Clubs"), Plain("Seven", "Diamonds"),
                           Plain("Nine", "Hearts")}
    /\ round.jokers = <<>>
    /\ \A i \in DOMAIN round.cards_held_in_hand : Unmodified(round.cards_held_in_hand[i])

\* C1: two invocations of score on the identical Round return the identical
\* (chips, mult) pair, also when the suit count has a tie for the most
\* frequent suit and when a four-card subset comes out of a hash collection.
C1_ScoreDeterministic ==
    \A i, j \in DOMAIN results : results[i] = results[j]

\* C2: on a Round of 1 to 5 played cards, with any held cards (none
\* included) and any jokers (RaisedFist included), score returns a pair and
\* never faults.
C2_ScoreNeverFaults ==
    (Len(Played) \in 1..HandSize) => \A i \in DOMAIN results : ~results[i].fault

\* C3: before any modifier or joker is applied, chips is the base chips of
\* the detected combination plus the sum of rank_order over the working
\* scored set; King, King, Three, Seven, Nine without jokers and modifiers
\* scores as Pair with chips = 36 and mult = 2.
C3_RankChips ==
    Returned =>
        /\ rank_chips = hand_value(hand).chips + RankOrderSum(on_scored_cards)
        /\ PairExample =>
              /\ hand = "Pair"
              /\ rank_chips = 36
              /\ LastResult = [chips |-> 36, mult |-> MultOf(2), fault |-> FALSE]

C3_Witness ==
    /\ Returned
    /\ PairExample
    /\ Played[1].rank = "Three"
    /\ Len(on_scored_cards) = 2
    /\ rank_chips = 36

\* C4: with a Splash joker the working scored set is the entire
\* cards_played sequence, otherwise it is the scored subset the classifier
\* returned; the rank chips are added over that set, and the combination is
\* the one detected without Splash.
C4_SplashWorkingSet ==
    Returned =>
        /\ Splash => on_scored_cards = Played
        /\ ~Splash => on_scored_cards = return_card
        /\ rank_chips = hand_value(hand).chips + SumRankValue(on_scored_cards, 1, 0)
        /\ Found(hand, return_card) \in
              determine_poker_hand(Played, SelectSeq(round.jokers,
                                                     LAMBDA j : j.joker # "Splash"))

C4_Witness ==
    /\ Returned
    /\ Splash
    /\ hand = "Pair"
    /\ Len(return_card) = 2
    /\ Len(Played) = 5
    /\ on_scored_cards = Played

\* C5: a 5-card hand of one suit and five consecutive rank values (the Ace
\* as 14 or as 1) that is not FlushFive, FlushHouse or FiveOfAKind is
\* reported as StraightFlush, never as Flush or Straight.
C5_StraightFlush ==
    (/\ Returned
     /\ Len(Played) = 5
     /\ OneSuit(Played)
     /\ RunsOf(Played, 5) # {}
     /\ hand \notin {"FlushFive", "FlushHouse", "FiveOfAKind"})
        => hand = "StraightFlush"

C5_Witness ==
    /\ Returned
    /\ Len(Played) = 5
    /\ OneSuit(Played)
    /\ RunsOf(Played, 5) = {1}
    /\ Played[1].rank = "Three"
    /\ hand = "StraightFlush"

\* C6: FlushFive is reported exactly when the played cards contain 5 cards
\* (at least 4 with FourFingers) that share one rank and one suit, a Wild
\* card matching any suit, in whatever order the cards are played.
C6_FlushFiveExactly ==
    Returned => (hand = "FlushFive" <=> FlushFiveShape(Played, FourFingers))

\* C7: when the hand is not FlushFive, FlushHouse is reported exactly when
\* the 5 played cards are three of one rank and two of another and every
\* card is of one common suit or Wild.
C7_FlushHouseExactly ==
    (Returned /\ hand # "FlushFive")
        => (hand = "FlushHouse" <=> (FullHouseShape(Played) /\ AllSuited(Played)))

\* C8: when Flush is reported, the scored cards are exactly the matched
\* cards, those of the dominant suit and the Wild ones; an off-suit card that
\* is not Wild is never in the scored set.
C8_FlushReturnsMatched ==
    (Returned /\ hand = "Flush")
        => \E s \in MostFrequentSuits(Played) :
              /\ \A i \in DOMAIN return_card : Suited(return_card[i], s)
              /\ Len(return_card) = SuitedCount(Played, s)

\* C9: a 5-card hand in which every card is of one suit s or Wild is
\* reported as Flush or a stronger combination, whatever the printed suits
\* of the Wild cards.
C9_WildCompletesFlush ==
    (Returned /\ Len(Played) = 5 /\ AllSuited(Played)) => hand \in FlushOrStronger

\* C10: with FourFingers, a hand that contains 4 cards of consecutive rank
\* values and no stronger combination is reported as Straight with those
\* cards as the scored set, wherever the fifth card falls.
C10_FourFingersStraight ==
    (/\ Returned
     /\ FourFingers
     /\ RunsOf(Played, 4) # {}
     /\ hand \notin FlushOrStronger)
        => /\ hand = "Straight"
           /\ SeqToSet(return_card) \subseteq SeqToSet(Played)
           /\ \E k \in RunsOf(Played, 4) :
                 \A v \in k..(k + 3) : \E i \in DOMAIN return_card : RankIs(return_card[i], v)

\* The ranks of cards are pairwise distinct and their values, the Ace as 14
\* or as 1, fill a range of consecutive values.
ConsecutiveRun(cards) ==
    /\ \A i, j \in DOMAIN cards : i # j => cards[i].rank # cards[j].rank
    /\ \E k \in 1..14 :
          \A i \in DOMAIN cards : \E v \in k..(k + Len(cards) - 1) : RankIs(cards[i], v)

\* C11: when Straight is reported, the cards that form it (5, or 4 with
\* FourFingers) have pairwise distinct, strictly consecutive rank values, the
\* Ace as 14 or as 1 below the Two; Ace-Two-Three-Four-Five is a Straight
\* and Three-Four-Five-Ace never is.
C11_StraightIsConsecutive ==
    Returned =>
        /\ hand = "Straight" =>
              /\ Len(return_card) = 5 \/ (Len(return_card) = 4 /\ FourFingers)
              /\ ConsecutiveRun(return_card)
        /\ (Len(Played) = 5 /\ RunsOf(Played, 5) = {1} /\ hand \notin FlushOrStronger)
              => hand = "Straight"

CardCount(cards, c) == Cardinality({i \in DOMAIN cards : cards[i] = c})
\* Every card of sub is a card of cards, as often at most.
SubBag(sub, cards) ==
    \A i \in DOMAIN sub : CardCount(sub, sub[i]) <= CardCount(cards, sub[i])
\* The cards of sub are exactly the n cards of rank r that cards holds.
ExactlyOfRank(sub, cards, r, n) ==
    /\ RankCount(sub, r) = n
    /\ RankCount(cards, r) = n

\* C12: when FourOfAKind, ThreeOfAKind, TwoPair or Pair is reported, the
\* scored cards are exactly the 4, 3, 4 or 2 played cards of the matching
\* rank(s), and no card of another rank, wherever they sit in the sorted hand.
C12_ScoredCardsOfRank ==
    Returned =>
        /\ hand = "FourOfAKind" =>
              /\ Len(return_card) = 4 /\ SubBag(return_card, Played)
              /\ \E r \in Ranks : ExactlyOfRank(return_card, Played, r, 4)
        /\ hand = "ThreeOfAKind" =>
              /\ Len(return_card) = 3 /\ SubBag(return_card, Played)
              /\ \E r \in Ranks : ExactlyOfRank(return_card, Played, r, 3)
        /\ hand = "TwoPair" =>
              /\ Len(return_card) = 4 /\ SubBag(return_card, Played)
              /\ \E r1, r2 \in Ranks :
                    /\ r1 # r2
                    /\ ExactlyOfRank(return_card, Played, r1, 2)
                    /\ ExactlyOfRank(return_card, Played, r2, 2)
        /\ hand = "Pair" =>
              /\ Len(return_card) = 2 /\ SubBag(return_card, Played)
              /\ \E r \in Ranks : ExactlyOfRank(return_card, Played, r, 2)

C12_Witness ==
    /\ Returned
    /\ hand = "FourOfAKind"
    /\ Len(Played) = 5
    /\ Played[1].rank = "Ace"
    /\ RankCount(return_card, "Nine") = 4

\* No two cards of cards have equal or adjacent rank values, the Ace as 14
\* or as 1.
NonSequential(cards) ==
    \A i, j \in DOMAIN cards :
        i # j => /\ rank_order(cards[i].rank) - rank_order(cards[j].rank) \notin {-1, 0, 1}
                 /\ ~(cards[i].rank = "Ace" /\ cards[j].rank = "Two")

\* The played cards of the highest rank.
Highest(cards) ==
    {c \in SeqToSet(cards) :
        \A i \in DOMAIN cards : rank_order(cards[i].rank) <= rank_order(c.rank)}

\* C13: a played hand of distinct, non-sequential ranks and mixed suits,
\* without jokers and modifiers, is reported as HighCard with exactly one
\* scored card, the highest-ranked played card, and scores
\* chips = 5 + rank_order(highest card), mult = 1.
C13_HighCard ==
    (/\ Returned
     /\ NonSequential(Played)
     /\ ~OneSuit(Played)
     /\ round.jokers = <<>>
     /\ \A i \in DOMAIN Played : Unmodified(Played[i])
     /\ \A i \in DOMAIN round.cards_held_in_hand : Unmodified(round.cards_held_in_hand[i]))
        => /\ hand = "HighCard"
           /\ Len(return_card) = 1
           /\ return_card[1] \in Highest(Played)
           /\ LastResult = [chips |-> 5 + rank_order(return_card[1].rank),
                            mult |-> MultOf(1), fault |-> FALSE]

C13_Witness ==
    /\ Returned
    /\ Len(Played) = 5
    /\ NonSequential(Played)
    /\ ~OneSuit(Played)
    /\ Played[2].rank = "Jack"
    /\ return_card = <<Plain("Jack", "Hearts")>>
    /\ LastResult.chips = 16

Held == round.cards_held_in_hand
BaseMult == MultOf(hand_value(hand).mult)

\* The effect of one scored card's enhancement, and of its edition, on v.
ScoredEnhancement(c, v) ==
    CASE c.enhancement = "Bonus" -> [v EXCEPT !.chips = @ + 30]
      [] c.enhancement = "Mult"  -> [v EXCEPT !.mult = MultAdd(@, 4)]
      [] c.enhancement = "Glass" -> [v EXCEPT !.mult = MultTimes(@, 2)]
      [] OTHER -> v
ScoredEdition(c, v) ==
    CASE c.edition = "Foil"        -> [v EXCEPT !.chips = @ + 50]
      [] c.edition = "Holographic" -> [v EXCEPT !.mult = MultAdd(@, 10)]
      [] c.edition = "Polychrome"  -> [v EXCEPT !.mult = MultTimesOneAndHalf(@)]
      [] OTHER -> v

\* The fold from the left: each card's enhancement, then that card's
\* edition, then the next card.
RECURSIVE ScoredFold(_, _)
ScoredFold(cards, v) ==
    IF cards = <<>> THEN v
    ELSE ScoredFold(Tail(cards), ScoredEdition(Head(cards), ScoredEnhancement(Head(cards), v)))

\* C14: the modifiers of the scored cards are folded from left to right,
\* each card's enhancement (Bonus +30 chips, Mult +4 mult, Glass mult x 2,
\* Wild and Steel nothing) and then its edition (Foil +50 chips, Holographic
\* +10 mult, Polychrome mult x 1.5), compounding with the mult accumulated
\* from the earlier cards.
C14_ScoredModifiersFold ==
    (Returned /\ Held = <<>> /\ \A i \in DOMAIN round.jokers : round.jokers[i] = J("Splash"))
        => LastResult = ScoredFold(on_scored_cards,
                                   [chips |-> rank_chips, mult |-> BaseMult, fault |-> FALSE])

C14_Witness ==
    /\ Returned
    /\ Splash
    /\ on_scored_cards = <<Card("Seven", "Spades", "Mult", "Polychrome"),
                           Card("Nine", "Clubs", "Glass", "Polychrome")>>
    /\ LastResult = [chips |-> 21, mult |-> [n |-> 45, d |-> 2], fault |-> FALSE]

\* The number of Steel cards among cards.
SteelCount(cards) ==
    Cardinality({i \in DOMAIN cards : cards[i].enhancement = "Steel"})

\* C15: held cards leave chips unchanged and change mult only by a factor
\* of 1.5 for each held Steel card; the other enhancements and every edition
\* of a held card change nothing.
C15_HeldModifiers ==
    (/\ Returned
     /\ round.jokers = <<>>
     /\ \A i \in DOMAIN on_scored_cards : Unmodified(on_scored_cards[i]))
        => /\ LastResult.chips = rank_chips
           /\ LastResult.mult = TimesOneAndHalfN(BaseMult, SteelCount(Held))

C15_Witness ==
    /\ Returned
    /\ Len(Held) = 3
    /\ Held[1] = Card("Nine", "Clubs", "Glass", "Polychrome")
    /\ Held[2] = Card("King", "Spades", "Steel", "None")
    /\ hand = "Pair"
    /\ LastResult.chips = rank_chips
    /\ LastResult.mult = MultOf(3)

\* The joker cards of the scored-context, held-context and independent
\* phase, each in sequence order.
ByPhase(jokers) ==
    SelectSeq(jokers, LAMBDA c : c.joker \in on_scored_jokers)
        \o SelectSeq(jokers, LAMBDA c : c.joker \in on_held_jokers)
        \o SelectSeq(jokers, LAMBDA c : c.joker \in independent_jokers)

\* The rule of one joker card applied to v.
JokerRule(c, v) ==
    LET pareidolia == HasJoker(round.jokers, "Pareidolia")
        smeared == HasJoker(round.jokers, "SmearedJoker")
        e == IF c.joker \in independent_jokers
             THEN apply_easy_jokers(c.joker, hand, Len(round.jokers), v.chips, v.mult)
             ELSE v
    IN  apply_medium_jokers(c.joker, Held, on_scored_cards, e.chips, e.mult,
                            pareidolia, smeared)

RECURSIVE RulesFold(_, _)
RulesFold(jokers, v) ==
    IF jokers = <<>> THEN v ELSE RulesFold(Tail(jokers), JokerRule(Head(jokers), v))

RECURSIVE EditionsFold(_, _)
EditionsFold(jokers, v) ==
    IF jokers = <<>> THEN v
    ELSE EditionsFold(Tail(jokers), ScoredEdition(Head(jokers), v))

AllUnmodified ==
    /\ \A i \in DOMAIN Played : Unmodified(Played[i])
    /\ \A i \in DOMAIN Held : Unmodified(Held[i])

\* C16: the joker rules are applied in a fixed phase order whatever the
\* jokers' positions: the scored-context jokers, then the held-context
\* jokers, then the independent jokers, each phase in sequence order, and
\* after all of them the edition of each joker card in sequence order as
\* for a scored card.
C16_JokerPhases ==
    (Returned /\ AllUnmodified)
        => LastResult = EditionsFold(round.jokers,
                            RulesFold(ByPhase(round.jokers),
                                [chips |-> rank_chips, mult |-> BaseMult, fault |-> FALSE]))

C16_Witness ==
    /\ Returned
    /\ hand = "Pair"
    /\ Held = <<Plain("King", "Clubs")>>
    /\ round.jokers = <<JokerCard("Baron", "Polychrome"), J("Joker"), J("Photograph")>>
    /\ LastResult.mult = MultOf(15)

\* The round with one more joker card, x, after its first k joker cards.
InsertAt(jokers, k, x) ==
    SubSeq(jokers, 1, k) \o <<x>> \o SubSeq(jokers, k + 1, Len(jokers))
WithJoker(k, x) == Round(Played, Held, InsertAt(round.jokers, k, x))

\* r is the latest result with 4 more mult and the same chips.
FourMoreMult(r) ==
    /\ ~r.fault
    /\ r.chips = LastResult.chips
    /\ r.mult = MultAdd(LastResult.mult, 4)

\* C17: a round with one more joker card, Joker without edition, wherever it
\* is put among the jokers, scores the chips of the round and 4 more mult.
C17_JokerAddsFour ==
    Returned => \A k \in 0..Len(round.jokers) :
                    \A r \in score(WithJoker(k, J("Joker"))) : FourMoreMult(r)

\* C17 amended: the Joker is put after the round's jokers, none of which is
\* an AbstractJoker or has the Polychrome edition; a round on which score
\* panics still panics.
C17_JokerAppended ==
    (/\ Scored
     /\ ~HasJoker(round.jokers, "AbstractJoker")
     /\ \A i \in DOMAIN round.jokers : round.jokers[i].edition # "Polychrome")
        => \A r \in score(WithJoker(Len(round.jokers), J("Joker"))) :
              IF LastResult.fault THEN r.fault ELSE FourMoreMult(r)

C17_Witness ==
    /\ Returned
    /\ hand = "Pair"
    /\ Held = <<>>
    /\ round.jokers = <<J("Blackboard"), JokerCard("JollyJoker", "Holographic")>>
    /\ LastResult.mult = MultOf(24)
    /\ \E r \in score(WithJoker(2, J("Joker"))) : r.mult = MultOf(28)

\* C18: the mult score returns is at least the base mult of the detected
\* combination, and the chips it returns are at least its base chips.
C18_AtLeastBase ==
    Returned => /\ MultLeq(BaseMult, LastResult.mult)
                /\ LastResult.chips >= hand_value(hand).chips

C18_Witness ==
    /\ Returned
    /\ hand = "Flush"
    /\ Held = <<Plain("Queen", "Hearts")>>
    /\ round.jokers = <<J("Blackboard")>>
    /\ LastResult.mult = BaseMult
    /\ LastResult.chips > hand_value(hand).chips

\* The combinations from the weakest to the strongest.
Strength == <<"HighCard", "Pair", "TwoPair", "ThreeOfAKind", "Straight", "Flush",
              "FullHouse", "FourOfAKind", "StraightFlush", "FiveOfAKind",
              "FlushHouse", "FlushFive">>

\* The combinations next to the detected one in strength, as <<weaker, stronger>>.
Steps ==
    {<<Strength[i], Strength[i + 1]>> : i \in 1..(Len(Strength) - 1)}
NextToHand == {s \in Steps : hand \in {s[1], s[2]}}

DistinctValue ==
    \A i \in DOMAIN Strength :
        Strength[i] # hand => hand_value(Strength[i]) # hand_value(hand)

\* C19: the base value of the detected combination differs from that of
\* every other combination, and from each combination to the next stronger
\* one both the base chips and the base mult are strictly greater.
C19_StrictlyIncreasing ==
    Scored => /\ DistinctValue
              /\ \A s \in NextToHand :
                    /\ hand_value(s[1]).chips < hand_value(s[2]).chips
                    /\ hand_value(s[1]).mult < hand_value(s[2]).mult

\* C19 amended: from each combination to the next stronger one neither the
\* base chips nor the base mult is smaller, and one of them is greater.
C19_Increasing ==
    Scored => /\ DistinctValue
              /\ \A s \in NextToHand :
                    /\ hand_value(s[1]).chips <= hand_value(s[2]).chips
                    /\ hand_value(s[1]).mult <= hand_value(s[2]).mult
                    /\ \/ hand_value(s[1]).chips < hand_value(s[2]).chips
                       \/ hand_value(s[1]).mult < hand_value(s[2]).mult

C19_Witness ==
    /\ Returned
    /\ hand = "ThreeOfAKind"
    /\ rank_chips = hand_value("Straight").chips + 6
    /\ LastResult.mult = MultOf(3)

\* The round with its k-th and (k+1)-th joker cards exchanged.
Swap(jokers, k) == [jokers EXCEPT ![k] = jokers[k + 1], ![k + 1] = jokers[k]]
Swapped(k) == Round(Played, Held, Swap(round.jokers, k))

\* r is the latest outcome: a panic, or the same chips and mult.
SameOutcome(r) ==
    /\ r.fault = LastResult.fault
    /\ ~r.fault => (r.chips = LastResult.chips /\ r.mult = LastResult.mult)

NoJokerEdition == \A i \in DOMAIN round.jokers : round.jokers[i].edition = "None"

\* The phase a joker card acts in: 1 scored-context, 2 held-context,
\* 3 independent, 0 none.
Phase(c) ==
    IF c.joker \in on_scored_jokers THEN 1
    ELSE IF c.joker \in on_held_jokers THEN 2
    ELSE IF c.joker \in independent_jokers THEN 3
    ELSE 0

\* C20: the joker cards of a round having no edition, the round with its
\* joker sequence permuted scores the same; every permutation being made of
\* exchanges of two neighbours, the round with two neighbouring joker cards
\* exchanged scores the same.
C20_JokerOrderIrrelevant ==
    (Scored /\ NoJokerEdition)
        => \A k \in 1..(Len(round.jokers) - 1) :
              \A r \in score(Swapped(k)) : SameOutcome(r)

\* C20 amended: the permutation keeps the order the joker cards of each
\* phase have among themselves; it is made of exchanges of two neighbours of
\* different phases.
C20_PhaseOrderKept ==
    (Scored /\ NoJokerEdition)
        => \A k \in 1..(Len(round.jokers) - 1) :
              Phase(round.jokers[k]) # Phase(round.jokers[k + 1])
                  => \A r \in score(Swapped(k)) : SameOutcome(r)

C20_Witness ==
    /\ Returned
    /\ hand = "Pair"
    /\ Held = <<Plain("King", "Clubs")>>
    /\ round.jokers = <<J("Joker"), J("RaisedFist"), J("Photograph")>>
    /\ LastResult.mult = MultOf(8 + 2 * rank_value("King"))
    /\ \E r \in score(Swapped(2)) : r.mult = LastResult.mult

\* The command-line program has run.
Ran == stdout # <<>>

\* C21: a run of the command-line program writes one line to standard
\* output, the floor of chips * mult of its score, and nothing else.
C21_OneLine ==
    Ran => \E r \in main_score(round) : stdout = <<<<Floor(r.chips, r.mult)>>>>

\* The hand-shape jokers of the specification: the combinations of each and
\* what it adds to chips and to mult.
OfAKind == {"Pair", "TwoPair", "FullHouse", "ThreeOfAKind", "FourOfAKind",
            "FiveOfAKind", "FlushHouse", "FlushFive"}
OfThree == {"ThreeOfAKind", "FullHouse", "FlushHouse", "FourOfAKind",
            "FiveOfAKind", "FlushFive"}
OfTwoPair == {"TwoPair", "FullHouse", "FlushHouse"}
OfStraight == {"Straight", "StraightFlush"}
OfFlush == {"Flush", "FlushFive", "FlushHouse", "FourOfAKind"}

Trigger(j) ==
    CASE j \in {"JollyJoker", "SlyJoker"} -> OfAKind
      [] j \in {"ZanyJoker", "WilyJoker"} -> OfThree
      [] j \in {"MadJoker", "CleverJoker"} -> OfTwoPair
      [] j \in {"CrazyJoker", "DeviousJoker"} -> OfStraight
      [] j \in {"DrollJoker", "CraftyJoker"} -> OfFlush

Amount(j) ==
    CASE j = "JollyJoker" -> [chips |-> 0, mult |-> 8]
      [] j = "SlyJoker" -> [chips |-> 50, mult |-> 0]
      [] j = "ZanyJoker" -> [chips |-> 0, mult |-> 12]
      [] j = "WilyJoker" -> [chips |-> 100, mult |-> 0]
      [] j = "MadJoker" -> [chips |-> 0, mult |-> 10]
      [] j = "CleverJoker" -> [chips |-> 80, mult |-> 0]
      [] j = "CrazyJoker" -> [chips |-> 0, mult |-> 12]
      [] j = "DeviousJoker" -> [chips |-> 100, mult |-> 0]
      [] j = "DrollJoker" -> [chips |-> 0, mult |-> 10]
      [] j = "CraftyJoker" -> [chips |-> 80, mult |-> 0]

\* The round has one joker card, without edition, of variant j.
OnlyJoker(j) == round.jokers = <<J(j)>>

\* C22: a hand-shape joker adds its amount to chips or to mult when the
\* detected combination is one of its combinations, and changes nothing
\* when it is not.
C22_HandShapeJokers ==
    (Returned /\ AllUnmodified)
        => \A j \in {"JollyJoker", "SlyJoker", "ZanyJoker", "WilyJoker", "MadJoker",
                     "CleverJoker", "CrazyJoker", "DeviousJoker", "DrollJoker",
                     "CraftyJoker"} :
              OnlyJoker(j)
                  => IF hand \in Trigger(j)
                     THEN /\ LastResult.chips = rank_chips + Amount(j).chips
                          /\ LastResult.mult = MultAdd(BaseMult, Amount(j).mult)
                     ELSE /\ LastResult.chips = rank_chips
                          /\ LastResult.mult = BaseMult

C22_Witness ==
    /\ Returned
    /\ OnlyJoker("DrollJoker")
    /\ hand = "FourOfAKind"
    /\ LastResult.mult = MultOf(14)

\* The played cards are unmodified and no held card is Steel: without a
\* joker, score returns (rank_chips, BaseMult).
PlainBefore ==
    /\ \A i \in DOMAIN Played : Unmodified(Played[i])
    /\ \A i \in DOMAIN Held : Held[i].enhancement # "Steel"

\* The least rank_order of the held cards.
LowestHeld ==
    CHOOSE v \in {rank_order(Held[i].rank) : i \in DOMAIN Held} :
        \A i \in DOMAIN Held : v <= rank_order(Held[i].rank)

\* C23: RaisedFist, with a held card, adds to mult 2 times the rank_order of
\* the lowest-ranked held card and leaves chips unchanged.
C23_RaisedFist ==
    (Returned /\ PlainBefore /\ OnlyJoker("RaisedFist") /\ Held # <<>>)
        => /\ LastResult.chips = rank_chips
           /\ LastResult.mult = MultAdd(BaseMult, 2 * LowestHeld)

C23_Witness ==
    /\ Returned
    /\ OnlyJoker("RaisedFist")
    /\ Held = <<Plain("King", "Clubs"), Plain("Queen", "Hearts")>>
    /\ LastResult.chips = rank_chips
    /\ LastResult.mult = MultAdd(BaseMult, 24)

\* Every held card is of suit Spades or Clubs, or is Wild.
AllBlackOrWild ==
    \A i \in DOMAIN Held :
        Held[i].suit \in {"Spades", "Clubs"} \/ Held[i].enhancement = "Wild"

\* C24: Blackboard multiplies mult by 3, once, when every held card is of
\* suit Spades or Clubs or is Wild, no held card included, and changes
\* nothing when a held card is a Hearts or Diamonds card that is not Wild;
\* it never changes chips.
C24_Blackboard ==
    (Returned /\ PlainBefore /\ OnlyJoker("Blackboard"))
        => /\ LastResult.chips = rank_chips
           /\ LastResult.mult = IF AllBlackOrWild THEN MultTimes(BaseMult, 3)
                                ELSE BaseMult

C24_Witness ==
    /\ Returned
    /\ OnlyJoker("Blackboard")
    /\ Held = <<Wild("Queen", "Hearts"), Plain("King", "Clubs")>>
    /\ hand = "Pair"
    /\ LastResult.mult = MultOf(6)

\* No played card has a modifier that changes the score (Wild does not) and
\* no card is held: before the jokers the score is (rank_chips, BaseMult).
NoScoringModifier ==
    /\ \A i \in DOMAIN Played :
          Played[i].enhancement \in {"None", "Wild"} /\ Played[i].edition = "None"
    /\ Held = <<>>

\* The round's jokers are FlowerPot and jokers without a rule.
FlowerPotOnly ==
    /\ HasJoker(round.jokers, "FlowerPot")
    /\ \A i \in DOMAIN round.jokers :
          /\ round.jokers[i].joker \in {"FlowerPot", "SmearedJoker", "Splash"}
          /\ round.jokers[i].edition = "None"

\* The scored cards of a suit, and of a color, a Wild card counting.
ScoredOfSuit(s) ==
    {i \in DOMAIN on_scored_cards :
        on_scored_cards[i].suit = s \/ on_scored_cards[i].enhancement = "Wild"}
ScoredRed == ScoredOfSuit("Hearts") \cup ScoredOfSuit("Diamonds")
ScoredBlack == ScoredOfSuit("Spades") \cup ScoredOfSuit("Clubs")
FourSuitsScored ==
    \A s \in {"Hearts", "Diamonds", "Spades", "Clubs"} : ScoredOfSuit(s) # {}

\* FlowerPot has multiplied mult by 3, or has changed nothing.
PotFired == LastResult.chips = rank_chips /\ LastResult.mult = MultTimes(BaseMult, 3)
PotIdle == LastResult.chips = rank_chips /\ LastResult.mult = BaseMult

PermutationsOf(cards) ==
    {[i \in DOMAIN cards |-> cards[p[i]]] : p \in Orderings(DOMAIN cards)}

\* C26: the combination reported for the played hand is the one reported
\* for every permutation of it under the same jokers.
C26_OrderOfPlay ==
    Scored => \A q \in PermutationsOf(Played) :
                 \A f \in determine_poker_hand(q, round.jokers) : f.hand = hand

\* C27: the scored-card list determine_poker_hand returns is not empty and
\* is a sub-multiset of the played cards: no card that was not played, and
\* no played card more often than it was played.
C27_ScoredArePlayed ==
    (Scored /\ Len(Played) \in 1..HandSize)
        => /\ return_card # <<>>
           /\ \A i \in DOMAIN return_card :
                 CardCount(return_card, return_card[i]) <= CardCount(Played, return_card[i])

C27_Witness ==
    /\ Returned
    /\ hand = "ThreeOfAKind"
    /\ Len(Played) = HandSize
    /\ Len(return_card) = 3
    /\ SubBag(return_card, Played)

\* C28: when StraightFlush is reported, some 5 played cards, or 4 or more
\* with FourFingers, are at once of one suit (or Wild) and of consecutive
\* rank values.
C28_StraightFlushOneSet ==
    (Returned /\ hand = "StraightFlush")
        => \E S \in SUBSET DOMAIN Played :
              /\ Cardinality(S) = 5 \/ (FourFingers /\ Cardinality(S) >= 4)
              /\ AllSuited(Pick(Played, S))
              /\ ConsecutiveRun(Pick(Played, S))

\* The variants without a rule, and the three lists of joker_application as
\* the specification gives them.
NoRule == {"FourFingers", "Splash", "Pareidolia", "SmearedJoker", "Mime", "SockAndBuskin"}
Independent == {"Joker", "JollyJoker", "ZanyJoker", "MadJoker", "CrazyJoker", "DrollJoker",
                "SlyJoker", "WilyJoker", "CleverJoker", "DeviousJoker", "CraftyJoker",
                "AbstractJoker", "Blackboard", "FlowerPot"}

\* The score before the jokers, and after one application of the rule of
\* joker card c by apply_easy_jokers and by apply_medium_jokers.
Before == [chips |-> rank_chips, mult |-> BaseMult, fault |-> FALSE]
EasyOnce(c) == apply_easy_jokers(c.joker, hand, Len(round.jokers), rank_chips, BaseMult)
MediumOnce(c) ==
    apply_medium_jokers(c.joker, Held, on_scored_cards, rank_chips, BaseMult,
                        HasJoker(round.jokers, "Pareidolia"),
                        HasJoker(round.jokers, "SmearedJoker"))

C30_MainAgreesWithScore ==
    (Ran /\ Returned)
        => stdout[Len(stdout)] = <<Floor(LastResult.chips, LastResult.mult)>>

====
